---------------------------- MODULE Spec2Model ----------------------------
(***************************************************************************)
(* Model of the sqlite3 datastore's collection methods of libstix2:        *)
(* processRangeValues, GetObjectList, GetManifestData, GetBundle,          *)
(* addCollection, addObjectToCollection and getCollections.                *)
(*                                                                         *)
(* Go's int is modelled as a two's-complement integer of IntBits bits, so  *)
(* that `last++` and `first + max` wrap around as they do in the program.  *)
(* Errors are modelled by their kind (one kind per message in the source). *)
(***************************************************************************)
EXTENDS Integers, Sequences, FiniteSets, TLC

VARIABLES
    rArgs, rRes,                                   \* a call of processRangeValues
    rows, clock, linkOut,                          \* collection-data table, time.Now()
    req, listOut, manifestOut, dbCalls,            \* a list / manifest request
    bPc, bIdx, bEntries, bMeta, stixBundle, fetchLog, bundleOut,   \* GetBundle
    cRows, collectionsOut,                         \* getCollections
    aPc, aObj, aIdx, tCollections, tCollectionMedia, execLog, addOut  \* addCollection

rangeVars  == <<rArgs, rRes>>
storeVars  == <<rows, clock, linkOut>>
queryVars  == <<req, listOut, manifestOut, dbCalls>>
bundleVars == <<bPc, bIdx, bEntries, bMeta, stixBundle, fetchLog, bundleOut>>
catalogVars == <<cRows, collectionsOut>>
addVars    == <<aPc, aObj, aIdx, tCollections, tCollectionMedia, execLog, addOut>>
vars == <<rangeVars, storeVars, queryVars, bundleVars, catalogVars, addVars>>

----------------------------------------------------------------------------
(* Bounds of the model *)

\* width of the modelled int (Go: 64 for amd64); large enough for every index
IntBits == 6
\* largest dataset size handed to processRangeValues on its own
MaxSize == 12
\* largest ordinary first / last argument of processRangeValues on its own
MaxIndex == 13
\* largest ordinary max argument (query.RangeMax)
MaxMax == 5

MaxInt == 2^(IntBits - 1) - 1
MinInt == -(2^(IntBits - 1))

\* the value an int holds after an arithmetic operation whose exact result is x
Wrap(x) == ((x - MinInt) % (2^IntBits)) + MinInt

Min2(a, b) == IF a <= b THEN a ELSE b

None == [kind |-> "none"]

----------------------------------------------------------------------------
(* Error kinds: one per error message constructed in the source *)

NoErr         == "nil"
ErrNegative   == "the starting value can not be negative"
ErrOrder      == "the starting range value is larger than the ending range value"
ErrOutOfScope == "the starting range value is out of scope"
ErrNoRecords  == "no records returned"
ErrBuild      == "query build error"
ErrDBQuery    == "database execution error querying collection content"
ErrScan       == "database scan error"
ErrFetch      == "object fetch error"
ErrPanic      == "runtime panic: slice bounds out of range"

----------------------------------------------------------------------------
(* processRangeValues *)

\* mutant: the out-of-scope check lets first = size through
rangeErrorOffByOne(first, last, size) ==
    IF first < 0 THEN ErrNegative
    ELSE IF first > last THEN ErrOrder
    ELSE IF first > size THEN ErrOutOfScope
    ELSE NoErr

\* the three argument checks, in the order the code makes them
rangeError(first, last, size) ==
    IF first < 0 THEN ErrNegative
    ELSE IF first > last THEN ErrOrder
    ELSE IF first >= size THEN ErrOutOfScope
    ELSE NoErr

\* mutant: the exclusive end is not clamped to the size of the dataset
rangeLastNoClamp(first, last, max, size) ==
    LET last1 == IF last = 0 /\ first = 0 /\ max # 0
                 THEN Wrap(first + max)
                 ELSE Wrap(last + 1)
    IN  IF max # 0 /\ Wrap(last1 - first) > max THEN Wrap(first + max) ELSE last1

\* the exclusive end of the window, computed once the checks have passed
rangeLast(first, last, max, size) ==
    LET last1 == IF last = 0 /\ first = 0 /\ max # 0
                 THEN Wrap(first + max)
                 ELSE Wrap(last + 1)
        last2 == IF last1 > size THEN size ELSE last1
    IN  IF max # 0 /\ Wrap(last2 - first) > max THEN Wrap(first + max) ELSE last2

processRangeValues(first, last, max, size) ==
    LET e == rangeError(first, last, size)
    IN  IF e # NoErr
        THEN [first |-> 0, last |-> 0, err |-> e]
        ELSE [first |-> first, last |-> rangeLast(first, last, max, size), err |-> NoErr]

\* arguments tried: the ordinary ones and the largest int
IndexArgs == (-1 .. MaxIndex) \cup {MaxInt}
MaxArgs   == (-1 .. MaxMax) \cup {MaxInt}
SizeArgs  == 0 .. MaxSize

----------------------------------------------------------------------------
(* Values the variables of the other operations rest at *)

IdleQuery == /\ req = None /\ listOut = None /\ manifestOut = None /\ dbCalls = <<>>
IdleStore == /\ rows = <<>> /\ clock = 0 /\ linkOut = None
IdleBundle == /\ bPc = "idle" /\ bIdx = 0 /\ bEntries = <<>> /\ bMeta = None
              /\ stixBundle = <<>> /\ fetchLog = <<>> /\ bundleOut = None
IdleCatalog == /\ cRows = <<>> /\ collectionsOut = None
IdleAdd == /\ aPc = "idle" /\ aObj = None /\ aIdx = 0 /\ tCollections = <<>>
           /\ tCollectionMedia = <<>> /\ execLog = <<>> /\ addOut = None
IdleRange == /\ rArgs = None /\ rRes = None

----------------------------------------------------------------------------
(* Specification of processRangeValues on its own *)

InitRange ==
    /\ rArgs \in [first : IndexArgs, last : IndexArgs, max : MaxArgs, size : SizeArgs]
    /\ rRes = None
    /\ IdleStore /\ IdleQuery /\ IdleBundle /\ IdleCatalog /\ IdleAdd

Resolve ==
    /\ rRes = None
    /\ rRes' = processRangeValues(rArgs.first, rArgs.last, rArgs.max, rArgs.size)
    /\ UNCHANGED <<rArgs, storeVars, queryVars, bundleVars, catalogVars, addVars>>

NextRange == Resolve

SpecRange == InitRange /\ [][NextRange]_vars

Resolved == rRes # None

----------------------------------------------------------------------------
(* C1 as stated: processRangeValues called with first >= size returns the
   out-of-scope error for every value of last and max *)
C1_Original ==
    (Resolved /\ rArgs.first >= rArgs.size) => rRes.err = ErrOutOfScope

(* C1 as amended: processRangeValues called with first >= size and
   last >= first returns the out-of-scope error and the zero window for every
   max; with last < first the ordering check, made earlier, answers instead *)
C1_OutOfScope ==
    (Resolved /\ rArgs.first >= rArgs.size)
        => /\ rRes.first = 0 /\ rRes.last = 0
           /\ rRes.err = (IF rArgs.first > rArgs.last THEN ErrOrder ELSE ErrOutOfScope)

C1_Witness ==
    /\ Resolved
    /\ rArgs.first = rArgs.size /\ rArgs.last >= rArgs.first
    /\ rRes.err = ErrOutOfScope

\* the window end the specification gives, in unbounded arithmetic
expectedEnd(first, last, max, size) ==
    IF first = 0 /\ last = 0 /\ max > 0 THEN Min2(first + max, size)
    ELSE IF max = 0 THEN Min2(last + 1, size)
    ELSE Min2(Min2(last + 1, size), first + max)

(* C4: for all first >= 0, last >= first, size > first and max >= 0,
   processRangeValues returns without error the pair (first, E), with E =
   min(first+max, size) on the default path (first = last = 0, max > 0),
   min(last+1, size) when max = 0, and min(last+1, size, first+max) otherwise *)
C4_Window ==
    (/\ Resolved
     /\ rArgs.first >= 0 /\ rArgs.last >= rArgs.first
     /\ rArgs.size > rArgs.first /\ rArgs.max >= 0)
        => /\ rRes.err = NoErr
           /\ rRes.first = rArgs.first
           /\ rRes.last = expectedEnd(rArgs.first, rArgs.last, rArgs.max, rArgs.size)


(* C4 restricted to last < MaxInt, where `last++` cannot wrap: the window is
   the one the specification gives (kept beside C4 to show how far it holds) *)
C4_WindowBelowMaxInt ==
    (/\ Resolved
     /\ rArgs.first >= 0 /\ rArgs.last >= rArgs.first /\ rArgs.last < MaxInt
     /\ rArgs.size > rArgs.first /\ rArgs.max >= 0)
        => /\ rRes.err = NoErr
           /\ rRes.first = rArgs.first
           /\ rRes.last = expectedEnd(rArgs.first, rArgs.last, rArgs.max, rArgs.size)

----------------------------------------------------------------------------
(* The collection-data table and the rows a content query returns *)

\* largest number of rows linked to the collection
MaxRows == 10
\* largest ordinary query.RangeBegin / RangeEnd / RangeMax of a request
MaxRangeBegin == 10
MaxRangeEnd == 11
MaxRangeMax == 5

STIXIDs == {"indicator--1", "malware--2"}

\* the modified timestamp stored for an object
versionOf(stixid) == IF stixid = "indicator--1" THEN "2020-01-01" ELSE "2021-06-30"

\* the rows DB.Query returns for the content statement: one per linked record,
\* in the order the records were added
queryRows(table) ==
    [i \in 1 .. Len(table) |->
        [dateAdded   |-> table[i].dateAdded,
         stixid      |-> table[i].stixid,
         modified    |-> versionOf(table[i].stixid),
         specVersion |-> "2.1"]]

\* addObjectToCollection: stamp the record with the current time and insert it.
\* clock is the latest timestamp stored; every later reading of time.Now() is larger
addObjectToCollection(stixid) ==
    /\ req = None /\ bPc = "idle"
    /\ \E execOk \in BOOLEAN :
          IF execOk
          THEN /\ clock' = clock + 1
               /\ rows' = Append(rows, [dateAdded |-> clock + 1, stixid |-> stixid])
               /\ linkOut' = [kind |-> "ok"]
          ELSE /\ clock' = clock      \* the time read is used nowhere else
               /\ rows' = rows
               /\ linkOut' = [kind |-> "error",
                              err |-> "database execution error inserting collection data"]
    /\ UNCHANGED <<rangeVars, queryVars, bundleVars, catalogVars, addVars>>

----------------------------------------------------------------------------
(* GetObjectList and GetManifestData *)

Fail(e) == [kind |-> "error", err |-> e]
Panic   == [kind |-> "panic", err |-> ErrPanic]

\* capacity of a slice grown from nil by n appends (the runtime doubles it)
RECURSIVE capAtLeast(_, _)
capAtLeast(c, n) == IF c >= n THEN c ELSE capAtLeast(2 * c, n)
sliceCap(n) == IF n = 0 THEN 0 ELSE capAtLeast(1, n)

\* Go's s[first:last] is allowed up to the capacity of s; s[0] and s[len(s)-1]
\* of the result then need one element
sliceOk(first, last, n) == 0 <= first /\ first < last /\ last <= sliceCap(n)

\* s[first:last]: the elements between len(s) and cap(s) hold the zero value
slice(s, first, last, zero) ==
    [i \in 1 .. (last - first) |-> IF first + i <= Len(s) THEN s[first + i] ELSE zero]

zeroRawData == [STIXID |-> "", DateAdded |-> 0, STIXVersion |-> "", SpecVersion |-> ""]
zeroManifestEntry == [id |-> "", DateAdded |-> 0, version |-> "", specVersion |-> ""]

\* the loop of GetObjectList over the rows
rawData(rs) ==
    [i \in 1 .. Len(rs) |->
        [STIXID      |-> rs[i].stixid,
         DateAdded   |-> rs[i].dateAdded,
         STIXVersion |-> rs[i].modified,
         SpecVersion |-> rs[i].specVersion]]

\* manifest.CreateManifestEntry for every row
manifestObjects(rs) ==
    [i \in 1 .. Len(rs) |->
        [id          |-> rs[i].stixid,
         DateAdded   |-> rs[i].dateAdded,
         version     |-> rs[i].modified,
         specVersion |-> rs[i].specVersion]]

\* mutant: the range is resolved before the empty check
objectListWindowRangeFirst(q, data) ==
    LET size == Len(data)
        r == processRangeValues(q.rangeBegin, q.rangeEnd, q.rangeMax, size)
    IN  IF r.err # NoErr THEN Fail(r.err)
        ELSE IF size = 0 THEN Fail(ErrNoRecords)
        ELSE IF ~sliceOk(r.first, r.last, size) THEN Panic
        ELSE LET w == slice(data, r.first, r.last, zeroRawData)
             IN  [kind    |-> "ok",
                  entries |-> w,
                  meta    |-> [Size |-> size, DateAddedFirst |-> w[1].DateAdded,
                               DateAddedLast |-> w[Len(w)].DateAdded,
                               RangeBegin |-> r.first, RangeEnd |-> r.last - 1]]

\* GetObjectList from the size of the result on: empty check, range, slice, metadata
objectListWindow(q, data) ==
    LET size == Len(data)
        r == processRangeValues(q.rangeBegin, q.rangeEnd, q.rangeMax, size)
    IN  IF size = 0 THEN Fail(ErrNoRecords)
        ELSE IF r.err # NoErr THEN Fail(r.err)
        ELSE IF ~sliceOk(r.first, r.last, size) THEN Panic
        ELSE LET w == slice(data, r.first, r.last, zeroRawData)
             IN  [kind    |-> "ok",
                  entries |-> w,
                  meta    |-> [Size |-> size, DateAddedFirst |-> w[1].DateAdded,
                               DateAddedLast |-> w[Len(w)].DateAdded,
                               RangeBegin |-> r.first, RangeEnd |-> r.last - 1]]

\* GetManifestData from the size of the result on: range, slice, metadata
\* (no empty check; RangeBegin and RangeEnd keep their zero values)
manifestWindow(q, objs) ==
    LET size == Len(objs)
        r == processRangeValues(q.rangeBegin, q.rangeEnd, q.rangeMax, size)
    IN  IF r.err # NoErr THEN Fail(r.err)
        ELSE IF ~sliceOk(r.first, r.last, size) THEN Panic
        ELSE LET w == slice(objs, r.first, r.last, zeroManifestEntry)
             IN  [kind    |-> "ok",
                  entries |-> w,
                  meta    |-> [Size |-> size, DateAddedFirst |-> w[1].DateAdded,
                               DateAddedLast |-> w[Len(w)].DateAdded,
                               RangeBegin |-> 0, RangeEnd |-> 0]]

\* mutant: the statement is executed before its build error is looked at
getObjectListQueryFirst(q, buildOk, dbOk, scanOk, rs) ==
    IF ~buildOk THEN [out |-> Fail(ErrBuild), calls |-> <<"Query">>]
    ELSE IF ~dbOk THEN [out |-> Fail(ErrDBQuery), calls |-> <<"Query">>]
    ELSE IF ~scanOk /\ rs # <<>> THEN [out |-> Fail(ErrScan), calls |-> <<"Query">>]
    ELSE [out |-> objectListWindow(q, rawData(rs)), calls |-> <<"Query">>]

\* GetObjectList: what it returns and the storage-engine calls it made.
\* buildOk, dbOk, scanOk: whether sqlGetObjectList, DB.Query and rows.Scan succeed
getObjectList(q, buildOk, dbOk, scanOk, rs) ==
    IF ~buildOk THEN [out |-> Fail(ErrBuild), calls |-> <<>>]
    ELSE IF ~dbOk THEN [out |-> Fail(ErrDBQuery), calls |-> <<"Query">>]
    ELSE IF ~scanOk /\ rs # <<>> THEN [out |-> Fail(ErrScan), calls |-> <<"Query">>]
    ELSE [out |-> objectListWindow(q, rawData(rs)), calls |-> <<"Query">>]

\* GetManifestData: what it returns and the storage-engine calls it made
getManifestData(q, buildOk, dbOk, scanOk, rs) ==
    IF ~buildOk THEN [out |-> Fail(ErrBuild), calls |-> <<>>]
    ELSE IF ~dbOk THEN [out |-> Fail(ErrDBQuery), calls |-> <<"Query">>]
    ELSE IF ~scanOk /\ rs # <<>> THEN [out |-> Fail(ErrScan), calls |-> <<"Query">>]
    ELSE [out |-> manifestWindow(q, manifestObjects(rs)), calls |-> <<"Query">>]

Requests ==
    [rangeBegin : -1 .. MaxRangeBegin,
     rangeEnd   : (-1 .. MaxRangeEnd) \cup {MaxInt},
     rangeMax   : -1 .. MaxRangeMax]

\* a request arrives
NewRequest ==
    /\ req = None /\ bPc = "idle"
    /\ req' \in Requests
    /\ linkOut' = None
    /\ UNCHANGED <<rows, clock, listOut, manifestOut, dbCalls,
                   rangeVars, bundleVars, catalogVars, addVars>>

GetObjectList ==
    /\ req # None /\ listOut = None
    /\ \E buildOk \in BOOLEAN, dbOk \in BOOLEAN, scanOk \in BOOLEAN :
          LET g == getObjectList(req, buildOk, dbOk, scanOk, queryRows(rows))
          IN  /\ listOut' = g.out
              /\ dbCalls' = dbCalls \o g.calls
    /\ UNCHANGED <<req, manifestOut, storeVars, rangeVars, bundleVars, catalogVars, addVars>>

GetManifestData ==
    /\ req # None /\ manifestOut = None
    /\ \E buildOk \in BOOLEAN, dbOk \in BOOLEAN, scanOk \in BOOLEAN :
          LET g == getManifestData(req, buildOk, dbOk, scanOk, queryRows(rows))
          IN  /\ manifestOut' = g.out
              /\ dbCalls' = dbCalls \o g.calls
    /\ UNCHANGED <<req, listOut, storeVars, rangeVars, bundleVars, catalogVars, addVars>>

\* the response has been sent
Finish ==
    /\ req # None
    /\ listOut # None \/ manifestOut # None
    /\ req' = None /\ listOut' = None /\ manifestOut' = None /\ dbCalls' = <<>>
    /\ UNCHANGED <<storeVars, rangeVars, bundleVars, catalogVars, addVars>>

InitQuery == IdleRange /\ IdleStore /\ IdleQuery /\ IdleBundle /\ IdleCatalog /\ IdleAdd

NextQuery ==
    \/ (Len(rows) < MaxRows /\ addObjectToCollection("indicator--1"))
    \/ NewRequest
    \/ GetObjectList
    \/ GetManifestData
    \/ Finish

SpecQuery == InitQuery /\ [][NextQuery]_vars

Matching == rawData(queryRows(rows))

\* the handler ran the query and read every row
gotSet(out) ==
    /\ out # None
    /\ ~(out.kind = "error" /\ out.err \in {ErrBuild, ErrDBQuery, ErrScan})

sameEntry(m, e) ==
    /\ m.id = e.STIXID /\ m.DateAdded = e.DateAdded
    /\ m.version = e.STIXVersion /\ m.specVersion = e.SpecVersion

(* C2: for the same ordered matching set and the same range parameters,
   GetManifestData produces the same outcome as GetObjectList: the same error
   kind when one of them fails, otherwise the same window of entries and the
   same metadata *)
C2_SameOutcome ==
    (gotSet(listOut) /\ gotSet(manifestOut))
        => /\ manifestOut.kind = listOut.kind
           /\ manifestOut.kind = "error" => manifestOut.err = listOut.err
           /\ manifestOut.kind = "ok" =>
                /\ Len(manifestOut.entries) = Len(listOut.entries)
                /\ \A i \in 1 .. Len(listOut.entries) :
                      sameEntry(manifestOut.entries[i], listOut.entries[i])
                /\ manifestOut.meta = listOut.meta

(* C3: a successful GetObjectList returns exactly the contiguous slice
   [windowStart, windowEnd) of the complete matching set, in its order, with
   Size = length of the complete set, RangeBegin = windowStart, RangeEnd =
   windowEnd - 1 and DateAddedFirst / DateAddedLast those of the first and last
   entries returned; 10 rows, rangeMax = 4 and no range give the 4 earliest *)
C3_Slice ==
    (listOut # None /\ listOut.kind = "ok")
        => LET n == Len(listOut.entries)
               b == req.rangeBegin
               m == listOut.meta
           IN  /\ n >= 1 /\ b >= 0 /\ b + n <= Len(Matching)
               /\ listOut.entries = SubSeq(Matching, b + 1, b + n)
               /\ m.Size = Len(Matching)
               /\ m.RangeBegin = b /\ m.RangeEnd = b + n - 1
               /\ m.DateAddedFirst = Matching[b + 1].DateAdded
               /\ m.DateAddedLast = Matching[b + n].DateAdded
               /\ (Len(Matching) = 10 /\ b = 0 /\ req.rangeEnd = 0 /\ req.rangeMax = 4)
                     => (n = 4 /\ m.RangeEnd = 3)

(* C3 for requests whose rangeEnd is below MaxInt, where `last++` cannot wrap
   (kept beside C3 to show how far it holds); the window end is the one
   processRangeValues is specified to give *)
C3_SliceBelowMaxInt ==
    (listOut # None /\ listOut.kind = "ok" /\ req.rangeEnd < MaxInt)
        => LET n == Len(listOut.entries)
               b == req.rangeBegin
               m == listOut.meta
           IN  /\ n >= 1 /\ b >= 0 /\ b + n <= Len(Matching)
               /\ b + n = expectedEnd(b, req.rangeEnd, req.rangeMax, Len(Matching))
               /\ listOut.entries = SubSeq(Matching, b + 1, b + n)
               /\ m.Size = Len(Matching)
               /\ m.RangeBegin = b /\ m.RangeEnd = b + n - 1
               /\ m.DateAddedFirst = Matching[b + 1].DateAdded
               /\ m.DateAddedLast = Matching[b + n].DateAdded
               /\ (Len(Matching) = 10 /\ b = 0 /\ req.rangeEnd = 0 /\ req.rangeMax = 4)
                     => (n = 4 /\ m.RangeEnd = 3)

\* the state C3 fails in: the last entry returned is no row of the matching set
C3_Garbage ==
    /\ listOut # None /\ listOut.kind = "ok"
    /\ listOut.entries[Len(listOut.entries)] = zeroRawData

(* C5: GetObjectList on an empty matching set returns the no-records error,
   with no entries and no metadata, for every rangeBegin, rangeEnd and rangeMax,
   the invalid ones included: the empty check comes before the range *)
C5_EmptyBeforeRange ==
    (/\ listOut # None
     /\ Len(queryRows(rows)) = 0
     /\ ~(listOut.kind = "error" /\ listOut.err \in {ErrBuild, ErrDBQuery}))
        => listOut = Fail(ErrNoRecords)

C5_Witness ==
    /\ rows = <<>>
    /\ listOut = Fail(ErrNoRecords)
    /\ req.rangeBegin < 0 \/ req.rangeBegin > req.rangeEnd

\* what C8 says of one handler's result; same(a, b): entry a is row b
nonEmptyWindow(out, same(_, _)) ==
    LET n == Len(out.entries)
        b == req.rangeBegin
    IN  /\ out.kind = "ok"
        /\ n >= 1 /\ b + n <= Len(Matching)
        /\ req.rangeMax > 0 => n <= req.rangeMax
        /\ same(out.entries[1], Matching[b + 1])
        /\ same(out.entries[n], Matching[b + n])

validRange ==
    /\ req # None
    /\ Len(Matching) > 0
    /\ 0 <= req.rangeBegin /\ req.rangeBegin <= req.rangeEnd
    /\ req.rangeEnd < Len(Matching)
    /\ req.rangeMax >= 0

(* C8: for size > 0, 0 <= first <= last < size and max >= 0 the window
   resolved starts at first, is not empty, ends within the dataset and holds
   at most max entries when max > 0; the slice GetObjectList and
   GetManifestData take is never empty and its first and last elements exist *)
C8_WindowInBounds ==
    /\ (validRange /\ gotSet(listOut))
          => /\ nonEmptyWindow(listOut, LAMBDA a, b : a = b)
             /\ listOut.meta.RangeBegin = req.rangeBegin
             /\ listOut.meta.RangeEnd = req.rangeBegin + Len(listOut.entries) - 1
    /\ (validRange /\ gotSet(manifestOut))
          => nonEmptyWindow(manifestOut, sameEntry)

C8_Witness ==
    /\ validRange /\ gotSet(listOut) /\ gotSet(manifestOut)
    /\ req.rangeMax > 0
    /\ req.rangeEnd - req.rangeBegin + 1 > req.rangeMax
    /\ Len(listOut.entries) = req.rangeMax
    /\ Len(manifestOut.entries) = req.rangeMax

buildFailed(out) == out # None /\ out.kind = "error" /\ out.err = ErrBuild
queried(out) == IF out = None \/ buildFailed(out) THEN 0 ELSE 1

(* C10: in GetObjectList and GetManifestData a statement that cannot be built
   is reported before any storage-engine call: the operation returns the build
   error with no results and no metadata, and DB.Query is not invoked for it *)
C10_BuildErrorBeforeQuery ==
    /\ Len(dbCalls) = queried(listOut) + queried(manifestOut)
    /\ buildFailed(listOut) => listOut = Fail(ErrBuild)
    /\ buildFailed(manifestOut) => manifestOut = Fail(ErrBuild)

C10_Witness ==
    /\ buildFailed(listOut) /\ buildFailed(manifestOut)
    /\ rows # <<>>
    /\ dbCalls = <<>>

----------------------------------------------------------------------------
(* GetBundle *)

\* largest number of rows and largest range value tried with GetBundle
MaxBundleRows == 3
MaxBundleRange == 2

BundleRequests ==
    [rangeBegin : -1 .. MaxBundleRange,
     rangeEnd   : -1 .. MaxBundleRange,
     rangeMax   : 0 .. MaxBundleRange]

\* the object ds.GetObject returns for a STIX id and version
object(stixid, version) == [id |-> stixid, modified |-> version]

\* the (STIXID, STIXVersion) pair GetObject is called with for an entry
fetchKey(v) == [id |-> v.STIXID, version |-> v.STIXVersion]

\* InitBundle, then GetObjectList; its error ends the call
GetBundleStart ==
    /\ bPc = "idle" /\ req = None
    /\ \E q \in BundleRequests, buildOk \in BOOLEAN, dbOk \in BOOLEAN, scanOk \in BOOLEAN :
          LET g == getObjectList(q, buildOk, dbOk, scanOk, queryRows(rows))
          IN  /\ req' = q
              /\ dbCalls' = dbCalls \o g.calls
              /\ stixBundle' = <<>>
              /\ fetchLog' = <<>>
              /\ IF g.out.kind = "ok"
                 THEN /\ bEntries' = g.out.entries
                      /\ bMeta' = g.out.meta
                      /\ bIdx' = 1
                      /\ bPc' = "fetch"
                      /\ bundleOut' = None
                 ELSE /\ bEntries' = <<>>
                      /\ bMeta' = None
                      /\ bIdx' = 0
                      /\ bPc' = "done"
                      /\ bundleOut' = g.out
    /\ linkOut' = None
    /\ UNCHANGED <<rows, clock, listOut, manifestOut, rangeVars, catalogVars, addVars>>

\* mutant: an object that cannot be fetched is left out and the loop goes on
GetBundleFetchSkip ==
    /\ bPc = "fetch" /\ bIdx <= Len(bEntries)
    /\ fetchLog' = Append(fetchLog, fetchKey(bEntries[bIdx]))
    /\ \E fetchOk \in BOOLEAN :
          /\ stixBundle' = IF fetchOk
                           THEN Append(stixBundle, object(bEntries[bIdx].STIXID,
                                                          bEntries[bIdx].STIXVersion))
                           ELSE stixBundle
          /\ bIdx' = bIdx + 1
          /\ UNCHANGED <<bPc, bundleOut>>
    /\ UNCHANGED <<bEntries, bMeta, storeVars, queryVars, rangeVars, catalogVars, addVars>>

\* one turn of the loop: GetObject for the next entry, AddObject of what it returns
GetBundleFetch ==
    /\ bPc = "fetch" /\ bIdx <= Len(bEntries)
    /\ fetchLog' = Append(fetchLog, fetchKey(bEntries[bIdx]))
    /\ \E fetchOk \in BOOLEAN :
          IF fetchOk
          THEN /\ stixBundle' = Append(stixBundle, object(bEntries[bIdx].STIXID,
                                                          bEntries[bIdx].STIXVersion))
               /\ bIdx' = bIdx + 1
               /\ UNCHANGED <<bPc, bundleOut>>
          ELSE /\ bundleOut' = Fail(ErrFetch)
               /\ bPc' = "done"
               /\ UNCHANGED <<stixBundle, bIdx>>
    /\ UNCHANGED <<bEntries, bMeta, storeVars, queryVars, rangeVars, catalogVars, addVars>>

\* the loop is over: the bundle and the metadata of GetObjectList are returned
GetBundleReturn ==
    /\ bPc = "fetch" /\ bIdx > Len(bEntries)
    /\ bundleOut' = [kind |-> "ok", bundle |-> stixBundle, meta |-> bMeta]
    /\ bPc' = "done"
    /\ UNCHANGED <<bIdx, bEntries, bMeta, stixBundle, fetchLog,
                   storeVars, queryVars, rangeVars, catalogVars, addVars>>

\* the response has been sent
BundleFinish ==
    /\ bPc = "done"
    /\ bPc' = "idle" /\ bIdx' = 0 /\ bEntries' = <<>> /\ bMeta' = None
    /\ stixBundle' = <<>> /\ fetchLog' = <<>> /\ bundleOut' = None
    /\ req' = None /\ dbCalls' = <<>>
    /\ UNCHANGED <<listOut, manifestOut>>
    /\ UNCHANGED <<storeVars, rangeVars, catalogVars, addVars>>

InitBundleSpec == InitQuery

NextBundle ==
    \/ \E s \in STIXIDs : (Len(rows) < MaxBundleRows /\ addObjectToCollection(s))
    \/ GetBundleStart
    \/ GetBundleFetch
    \/ GetBundleReturn
    \/ BundleFinish

SpecBundle == InitBundleSpec /\ [][NextBundle]_vars

fetchKeys(es, n) == [i \in 1 .. n |-> fetchKey(es[i])]
objects(es, n) == [i \in 1 .. n |-> object(es[i].STIXID, es[i].STIXVersion)]

(* C6: GetBundle fetches the objects one at a time in the order of the
   entries GetObjectList returned, each by its (STIX id, version) pair; on
   success the bundle holds exactly obj(e1), ..., obj(en) in that order; when a
   fetch fails GetBundle returns that error with no bundle and no metadata and
   fetches no later entry *)
C6_BundleOrder ==
    /\ bPc # "idle" =>
          /\ Len(fetchLog) <= Len(bEntries)
          /\ fetchLog = fetchKeys(bEntries, Len(fetchLog))
          /\ stixBundle = objects(bEntries, Len(stixBundle))
    /\ bPc = "fetch" =>
          /\ bEntries = objectListWindow(req, Matching).entries
          /\ Len(fetchLog) = bIdx - 1 /\ Len(stixBundle) = bIdx - 1
    /\ (bPc = "done" /\ bundleOut.kind = "ok") =>
          /\ bEntries = objectListWindow(req, Matching).entries
          /\ bundleOut.bundle = objects(bEntries, Len(bEntries))
          /\ fetchLog = fetchKeys(bEntries, Len(bEntries))
          /\ bundleOut.meta = objectListWindow(req, Matching).meta
    /\ (bPc = "done" /\ bundleOut.kind # "ok") =>
          /\ bundleOut \in {Fail(e) : e \in {ErrBuild, ErrDBQuery, ErrScan, ErrNoRecords,
                                            ErrNegative, ErrOrder, ErrOutOfScope, ErrFetch}}
                           \cup {Panic}
          /\ bundleOut = Fail(ErrFetch) <=> bEntries # <<>>
          /\ bundleOut = Fail(ErrFetch) =>
                /\ Len(fetchLog) = bIdx /\ Len(stixBundle) = bIdx - 1

(* C6, the abort: once GetBundle has returned, no further fetch is made *)
C6_NoFetchAfterReturn ==
    [][bPc = "done" => (fetchLog' = fetchLog \/ bPc' = "idle")]_vars

C6_Witness ==
    /\ bPc = "done" /\ bundleOut = Fail(ErrFetch)
    /\ Len(bEntries) = 3 /\ bIdx = 2
    /\ bEntries[1].STIXID # bEntries[2].STIXID
    /\ fetchLog = <<fetchKey(bEntries[1]), fetchKey(bEntries[2])>>

----------------------------------------------------------------------------
(* getCollections *)

\* longest media-type column (in characters) a row of the query holds
MaxMediaLen == 5

\* a string is the sequence of its characters
Chars == {"a", "b", ","}
Strings == UNION {[1 .. n -> Chars] : n \in 0 .. MaxMediaLen}

firstComma(s) == CHOOSE k \in 1 .. Len(s) :
                    s[k] = "," /\ \A j \in 1 .. (k - 1) : s[j] # ","

\* strings.Split(s, ","): the pieces between the commas, empty pieces included
RECURSIVE Split(_)
Split(s) ==
    IF \A k \in 1 .. Len(s) : s[k] # ","
    THEN <<s>>
    ELSE LET k == firstComma(s)
         IN  <<SubSeq(s, 1, k - 1)>> \o Split(SubSeq(s, k + 1, Len(s)))

\* c.AddMediaType(mt)
AddMediaType(types, mt) == Append(types, mt)

\* mutant: a media type is dropped when it was seen anywhere before
RECURSIVE mediaLoopDedupAll(_, _, _)
mediaLoopDedupAll(mediatypes, i, types) ==
    IF i > Len(mediatypes) THEN types
    ELSE IF \E j \in 1 .. (i - 1) : mediatypes[j] = mediatypes[i]
         THEN mediaLoopDedupAll(mediatypes, i + 1, types)
         ELSE mediaLoopDedupAll(mediatypes, i + 1, AddMediaType(types, mediatypes[i]))

\* the loop over the split list, from index i on (i counts from 1 here)
RECURSIVE mediaLoop(_, _, _)
mediaLoop(mediatypes, i, types) ==
    IF i > Len(mediatypes) THEN types
    ELSE IF i > 1 /\ mediatypes[i] = mediatypes[i - 1]
         THEN mediaLoop(mediatypes, i + 1, types)
         ELSE mediaLoop(mediatypes, i + 1, AddMediaType(types, mediatypes[i]))

\* the collection built from one row of the query
collectionOf(row) ==
    [DateAdded   |-> row.dateAdded,
     Enabled     |-> (row.enabled = 1),
     Hidden      |-> (row.hidden = 1),
     ID          |-> row.id,
     Title       |-> row.title,
     Description |-> row.description,
     CanRead     |-> (row.iCanRead = 1),
     CanWrite    |-> (row.iCanWrite = 1),
     MediaTypes  |-> mediaLoop(Split(row.mediaType), 1, <<>>)]

\* the rows the statement of sqlGetAllCollections selects
selectCollections(which, table) ==
    SelectSeq(table, LAMBDA r :
        CASE which = "all"            -> TRUE
          [] which = "allEnabled"     -> r.enabled = 1
          [] which = "enabledVisible" -> r.enabled = 1 /\ r.hidden = 0)

CatalogRow ==
    [dateAdded : {1}, enabled : {0, 1}, hidden : {0, 1}, id : {"c1"},
     title : {"title"}, description : {"description"},
     iCanRead : {0, 1}, iCanWrite : {0, 1}, mediaType : Strings]

\* getCollections; dbOk, scanOk, rowsOk: whether DB.Query, rows.Scan and
\* rows.Err report no error
getCollections(which) ==
    /\ collectionsOut = None
    /\ \E dbOk \in BOOLEAN, scanOk \in BOOLEAN, rowsOk \in BOOLEAN :
          LET sel == selectCollections(which, cRows)
          IN  collectionsOut' =
                 IF ~dbOk THEN Fail("database execution error querying collection")
                 ELSE IF ~scanOk /\ sel # <<>>
                      THEN Fail("database scan error querying collection")
                 ELSE IF ~rowsOk THEN Fail("database row error querying collection")
                 ELSE [kind |-> "ok", which |-> which,
                       collections |-> [i \in 1 .. Len(sel) |-> collectionOf(sel[i])]]
    /\ UNCHANGED <<cRows, rangeVars, storeVars, queryVars, bundleVars, addVars>>

GetAllCollections == getCollections("all")
GetAllEnabledCollections == getCollections("allEnabled")
GetCollections == getCollections("enabledVisible")

InitCatalog ==
    /\ cRows \in {<<>>} \cup {<<r>> : r \in CatalogRow}
    /\ collectionsOut = None
    /\ IdleRange /\ IdleStore /\ IdleQuery /\ IdleBundle /\ IdleAdd

NextCatalog ==
    \/ GetAllCollections
    \/ GetAllEnabledCollections
    \/ GetCollections

SpecCatalog == InitCatalog /\ [][NextCatalog]_vars

\* the indices of a list whose element differs from the one just before it
keptIndices(list) ==
    SelectSeq([i \in 1 .. Len(list) |-> i], LAMBDA i : i = 1 \/ list[i] # list[i - 1])

\* the pieces of a media-type column, by position: piece p runs between the
\* (p-1)-th and the p-th comma
commas(s) == {k \in 1 .. Len(s) : s[k] = ","}
piece(s, p) ==
    LET before == {k \in commas(s) : Cardinality({j \in commas(s) : j <= k}) = p - 1}
        after  == {k \in commas(s) : Cardinality({j \in commas(s) : j <= k}) = p}
        from   == IF before = {} THEN 1 ELSE (CHOOSE k \in before : TRUE) + 1
        to     == IF after = {} THEN Len(s) ELSE (CHOOSE k \in after : TRUE) - 1
    IN  SubSeq(s, from, to)
pieces(s) == [p \in 1 .. (Cardinality(commas(s)) + 1) |-> piece(s, p)]

(* C7: when getCollections rebuilds the media types from the comma-delimited
   list, an element is dropped exactly when it equals the element just before
   it in the list, every other element is added in list order: "a,a,b" gives
   [a, b] and "a,b,a" gives [a, b, a] *)
C7_AdjacentDedup ==
    (collectionsOut # None /\ collectionsOut.kind = "ok")
        => \A i \in 1 .. Len(collectionsOut.collections) :
              LET got  == collectionsOut.collections[i].MediaTypes
                  col  == selectCollections(collectionsOut.which, cRows)[i].mediaType
                  list == pieces(col)
                  kept == keptIndices(list)
              IN  /\ got = [k \in 1 .. Len(kept) |-> list[kept[k]]]
                  /\ col = <<"a", ",", "a", ",", "b">> => got = << <<"a">>, <<"b">> >>
                  /\ col = <<"a", ",", "b", ",", "a">>
                        => got = << <<"a">>, <<"b">>, <<"a">> >>

C7_Witness ==
    /\ collectionsOut # None /\ collectionsOut.kind = "ok"
    /\ Len(collectionsOut.collections) = 1
    /\ cRows[1].mediaType = <<"a", ",", "b", ",", "a">>
    /\ collectionsOut.collections[1].MediaTypes = << <<"a">>, <<"b">>, <<"a">> >>

----------------------------------------------------------------------------
(* addCollection *)

\* most media types a collection declares, most collections stored
MaxMediaTypes == 3
MaxCollections == 2

StixMedia  == "application/vnd.oasis.stix+json"
OtherMedia == "application/vnd.oasis.taxii+json"

\* a nil MediaTypes and an empty one behave alike: both are <<>> here
CollectionObjects ==
    [ID : {"c1", "c2"}, Title : {"title"}, Description : {"description"},
     CanRead : {TRUE}, CanWrite : {FALSE},
     MediaTypes : UNION {[1 .. n -> {StixMedia, OtherMedia}] : n \in 0 .. MaxMediaTypes}]

\* the value stored for a media type (TODO in the source: look up in cache)
mediavalue(media) == IF media = StixMedia THEN 1 ELSE 0

baseRow(obj, dateAdded) ==
    [dateAdded |-> dateAdded, id |-> obj.ID, title |-> obj.Title,
     description |-> obj.Description, canRead |-> obj.CanRead, canWrite |-> obj.CanWrite]

mediaRow(obj, media) == [id |-> obj.ID, media |-> mediavalue(media)]

\* the call and its first DB.Exec: the insert of the collection row
addCollectionBase ==
    /\ aPc = "idle"
    /\ \E obj \in CollectionObjects, execOk \in BOOLEAN :
          /\ aObj' = obj
          /\ execLog' = <<[stmt |-> "sqlAddCollection", row |-> baseRow(obj, clock + 1),
                           ok |-> execOk]>>
          /\ IF execOk
             THEN /\ tCollections' = Append(tCollections, baseRow(obj, clock + 1))
                  /\ clock' = clock + 1
                  /\ IF obj.MediaTypes # <<>>
                     THEN aPc' = "media" /\ aIdx' = 1 /\ addOut' = None
                     ELSE aPc' = "done" /\ aIdx' = 0 /\ addOut' = [kind |-> "ok"]
             ELSE /\ tCollections' = tCollections
                  /\ clock' = clock
                  /\ aPc' = "done" /\ aIdx' = 0
                  /\ addOut' = Fail("database execution error inserting collection")
    /\ UNCHANGED <<tCollectionMedia, rows, linkOut,
                   rangeVars, queryVars, bundleVars, catalogVars>>

\* mutant: a failed media-type insert takes the collection row back out
addCollectionMediaRollback ==
    /\ aPc = "media" /\ aIdx <= Len(aObj.MediaTypes)
    /\ \E execOk \in BOOLEAN :
          /\ execLog' = Append(execLog, [stmt |-> "sqlAddCollectionMediaType",
                                         row |-> mediaRow(aObj, aObj.MediaTypes[aIdx]),
                                         ok |-> execOk])
          /\ IF execOk
             THEN /\ tCollectionMedia' =
                        Append(tCollectionMedia, mediaRow(aObj, aObj.MediaTypes[aIdx]))
                  /\ tCollections' = tCollections
                  /\ IF aIdx < Len(aObj.MediaTypes)
                     THEN aPc' = "media" /\ aIdx' = aIdx + 1 /\ addOut' = None
                     ELSE aPc' = "done" /\ aIdx' = aIdx /\ addOut' = [kind |-> "ok"]
             ELSE /\ tCollectionMedia' = tCollectionMedia
                  /\ tCollections' = SubSeq(tCollections, 1, Len(tCollections) - 1)
                  /\ aPc' = "done" /\ aIdx' = aIdx
                  /\ addOut' =
                        Fail("database execution error inserting collection media type")
    /\ UNCHANGED <<aObj, storeVars, rangeVars, queryVars, bundleVars, catalogVars>>

\* one turn of the loop over obj.MediaTypes: the insert of a media-type row
addCollectionMedia ==
    /\ aPc = "media" /\ aIdx <= Len(aObj.MediaTypes)
    /\ \E execOk \in BOOLEAN :
          /\ execLog' = Append(execLog, [stmt |-> "sqlAddCollectionMediaType",
                                         row |-> mediaRow(aObj, aObj.MediaTypes[aIdx]),
                                         ok |-> execOk])
          /\ IF execOk
             THEN /\ tCollectionMedia' =
                        Append(tCollectionMedia, mediaRow(aObj, aObj.MediaTypes[aIdx]))
                  /\ IF aIdx < Len(aObj.MediaTypes)
                     THEN aPc' = "media" /\ aIdx' = aIdx + 1 /\ addOut' = None
                     ELSE aPc' = "done" /\ aIdx' = aIdx /\ addOut' = [kind |-> "ok"]
             ELSE /\ tCollectionMedia' = tCollectionMedia
                  /\ aPc' = "done" /\ aIdx' = aIdx
                  /\ addOut' =
                        Fail("database execution error inserting collection media type")
    /\ UNCHANGED <<aObj, tCollections, storeVars, rangeVars, queryVars, bundleVars,
                   catalogVars>>

\* the caller has the result
AddFinish ==
    /\ aPc = "done"
    /\ aPc' = "idle" /\ aObj' = None /\ aIdx' = 0 /\ execLog' = <<>> /\ addOut' = None
    /\ UNCHANGED <<tCollections, tCollectionMedia, storeVars, rangeVars, queryVars,
                   bundleVars, catalogVars>>

InitAdd == InitQuery

NextAdd ==
    \/ (Len(tCollections) < MaxCollections /\ addCollectionBase)
    \/ addCollectionMedia
    \/ AddFinish

SpecAdd == InitAdd /\ [][NextAdd]_vars

isPrefix(s, t) == Len(s) <= Len(t) /\ s = SubSeq(t, 1, Len(s))
lastRows(t, n) == SubSeq(t, Len(t) - n + 1, Len(t))

\* the attempts of the running call: the collection row first, then the media
\* types in declaration order; only the last attempt can have failed; the
\* rows of the attempts that succeeded are the last rows of the two tables
addCollectionOrder ==
    aPc # "idle" =>
        LET n == Len(execLog)
            failed == execLog[n].ok = FALSE
            nMedia == IF failed THEN n - 2 ELSE n - 1
        IN  /\ n >= 1 /\ n <= 1 + Len(aObj.MediaTypes)
            /\ execLog[1].stmt = "sqlAddCollection" /\ execLog[1].row.id = aObj.ID
            /\ \A k \in 2 .. n :
                  /\ execLog[k].stmt = "sqlAddCollectionMediaType"
                  /\ execLog[k].row = [id |-> aObj.ID,
                                       media |-> IF aObj.MediaTypes[k - 1] = StixMedia
                                                 THEN 1 ELSE 0]
            /\ \A k \in 1 .. (n - 1) : execLog[k].ok
            /\ failed => (aPc = "done" /\ addOut.kind = "error")
            /\ (aPc = "done" /\ ~failed) =>
                  (addOut = [kind |-> "ok"] /\ n = 1 + Len(aObj.MediaTypes))
            /\ aPc = "media" => (aIdx = n /\ ~failed)
            /\ (n = 1 /\ failed) <=> (addOut = Fail("database execution error inserting collection"))
            /\ ~(n = 1 /\ failed) =>
                  /\ tCollections # <<>>
                  /\ tCollections[Len(tCollections)] = execLog[1].row
                  /\ Len(tCollectionMedia) >= nMedia
                  /\ lastRows(tCollectionMedia, nMedia)
                        = [k \in 1 .. nMedia |-> execLog[k + 1].row]

(* C9: addCollection inserts the collection row first and then one media-type
   row per declared media type in declaration order; if the first insert fails
   no media-type insert is attempted; if the k-th media-type insert fails
   addCollection returns an error, attempts no further insert and leaves the
   collection row and the k-1 media-type rows in the store: no row is ever
   taken back out *)
C9_NoRollback ==
    /\ []addCollectionOrder
    /\ [][/\ isPrefix(tCollections, tCollections')
          /\ isPrefix(tCollectionMedia, tCollectionMedia')
          /\ aPc = "done" => execLog' = <<>>]_vars

C9_Witness ==
    /\ aPc = "done"
    /\ addOut = Fail("database execution error inserting collection media type")
    /\ Len(aObj.MediaTypes) = 3 /\ Len(execLog) = 3
    /\ tCollections[Len(tCollections)].id = aObj.ID
    /\ lastRows(tCollectionMedia, 1) = <<mediaRow(aObj, aObj.MediaTypes[1])>>

=============================================================================
